---- MODULE Spec2Model ----
(***************************************************************************)
(* Model of the paper-reading agent of src/main.py.                        *)
(*                                                                         *)
(*   PDFConverter    convert_to_markdown, _convert_with_mineru (remote,    *)
(*                   job based: submit, upload, poll, download, unpack)    *)
(*                   and _convert_with_pymupdf (local, synchronous).       *)
(*   PaperAnalyzer   analyze_paper over ANALYSIS_QUESTIONS.                *)
(*                                                                         *)
(* A call is cut into one action per request to the outside world (HTTP    *)
(* request, library call, file open, file write), since the outcomes of    *)
(* those requests are the inputs of the program.                           *)
(***************************************************************************)
EXTENDS Integers, Sequences, FiniteSets, TLC

\* ------------------------------------------------------------------------
\* Bounds of the model
\* ------------------------------------------------------------------------

\* number of write steps that put a whole normalized text on disk
TextLen == 2

\* the source documents the converter is called on
Docs == {"p1", "p2"}

\* the source documents of a batch run, in the order glob finds them; the
\* output directory has an output path and a report path for each
Papers == {"p1", "p2", "p3"}

\* the values of the clock when a report is written
Times == {"t1", "t2"}

\* longest markdown text, in pieces, given to extract_images_from_markdown
MaxPieces == 3

\* the longest list of extracted images the messages are built from
MaxImages == 6

\* image_paths[:5]
MaxAttachments == 5

\* the file names the image references of a text can name
Names == {"a.png", "b.png"}

\* ------------------------------------------------------------------------
\* Program constants
\* ------------------------------------------------------------------------

\* max_retry of the polling loop
max_retry == 180

\* PaperAnalyzer.ANALYSIS_QUESTIONS: four categories of 2, 4, 4 and 5
\* questions; a question is named by its category and its position
ANALYSIS_QUESTIONS ==
  << [category |-> "basic_info",
      questions |-> << "basic_1", "basic_2" >>],
     [category |-> "structure",
      questions |-> << "structure_1", "structure_2", "structure_3",
                       "structure_4" >>],
     [category |-> "figures",
      questions |-> << "figures_1", "figures_2", "figures_3", "figures_4" >>],
     [category |-> "advice",
      questions |-> << "advice_1", "advice_2", "advice_3", "advice_4",
                       "advice_5" >>] >>

\* ------------------------------------------------------------------------
\* State
\* ------------------------------------------------------------------------

VARIABLES
  req_use_mineru,   \* the use_mineru argument PDFConverter was built with
  use_mineru,       \* PDFConverter.use_mineru
  mineru_token,     \* PDFConverter.mineru_token ("" stands for None / empty)
  md,               \* the file at each document's output path
  pc,               \* position of the running convert_to_markdown call
  retry,            \* retry of the polling loop
  call,             \* what the running (or last) call has done so far
  returned,         \* documents for which some call returned a path
  a_pc,             \* position of the running analyze_paper call
  cat_i,            \* index of category_info in ANALYSIS_QUESTIONS
  q_j,              \* index of question in questions
  results,          \* local results of analyze_paper
  category_result,  \* local category_result of analyze_paper
  analysis_results, \* PaperAnalyzer.analysis_results
  a_out,            \* how the last analyze_paper call ended
  a_prev,           \* self.analysis_results when the call began
  chats,            \* chat calls issued by the running (or last) call
  reports,          \* the file at each report path
  s_out,            \* how the last save_analysis_report call ended
  report_dir,       \* whether the directory of the report paths exists
  p_pc,             \* position of the running process_paper call
  p_doc,            \* pdf_path of the running (or last) process_paper call
  p_out,            \* how the last process_paper call ended
  p_prompt,         \* how input() at the confirmation prompt ended
  markdown_path,    \* local markdown_path of process_paper
  p_remote,         \* whether the remote path of the conversion failed
  pdf_files,        \* pdf_files of batch_process_papers
  b_pc,             \* position of the running batch_process_papers call
  b_i,              \* index of pdf_file in pdf_files
  b_results,        \* local results of batch_process_papers
  successful,       \* local successful of batch_process_papers
  failed,           \* local failed of batch_process_papers
  b_log,            \* how process_paper ended for each document handled
  e_pc,             \* position of the extract_images_from_markdown call
  content,          \* text read by extract_images_from_markdown
  disk,             \* the files under images/ next to the markdown file
  image_paths,      \* the list extract_images_from_markdown returned
  m_pc,             \* position of the construction of one question's messages
  m_in,             \* the document, category and question of the messages
  loadable,         \* the image files image_to_base64 can load
  messages,         \* the list passed to self.llm.chat
  th                \* the locals of each thread running process_paper

conv_vars == << req_use_mineru, use_mineru, mineru_token, md, pc, retry,
                call, returned >>
ana_vars == << a_pc, cat_i, q_j, results, category_result, analysis_results,
               a_out, a_prev, chats >>
rep_vars == << reports, s_out, report_dir >>
pipe_vars == << p_pc, p_doc, p_out, p_prompt, markdown_path, p_remote >>
batch_vars == << pdf_files, b_pc, b_i, b_results, successful, failed, b_log >>
msg_vars == << m_pc, m_in, loadable, messages >>
ext_vars == << e_pc, content, disk, image_paths, msg_vars >>
vars == << req_use_mineru, use_mineru, mineru_token, md, pc, retry, call,
           returned, a_pc, cat_i, q_j, results, category_result,
           analysis_results, a_out, a_prev, chats, reports, s_out, report_dir,
           p_pc,
           p_doc, p_out, p_prompt, markdown_path, p_remote, pdf_files, b_pc,
           b_i, b_results, successful, failed, b_log, e_pc, content, disk,
           image_paths, m_pc, m_in, loadable, messages, th >>

\* ------------------------------------------------------------------------
\* Files
\* ------------------------------------------------------------------------

NoFile == [exists |-> FALSE, len |-> 0, writer |-> "none"]

FileOf(w, n) == [exists |-> TRUE, len |-> n, writer |-> w]

IsComplete(f) == f.exists /\ f.len = TextLen

\* ------------------------------------------------------------------------
\* PDFConverter.__init__
\* ------------------------------------------------------------------------

\* Python truthiness of an optional string
Truthy(s) == s # ""

\* Python "a or b"
PyOr(a, b) == IF Truthy(a) THEN a ELSE b

InitUseMineru_keep(use, token) == use

\* self.use_mineru after the constructor
InitUseMineru(use, token) == use /\ Truthy(token)

NoCall ==
  [doc |-> "none", src_ok |-> FALSE, pre_exists |-> FALSE, again |-> FALSE,
   before |-> NoFile, posts |-> 0, puts |-> 0, polls |-> 0, mineru |-> 0,
   local |-> 0, post_outcome |-> "none", put_outcome |-> "none",
   last_poll |-> "none", archive |-> "none", remote_err |-> "none",
   result |-> "none", error |-> "none"]

EmptyResults == [paper_path |-> "none", categories |-> << >>]

EmptyCategory == [category |-> "none", qa_pairs |-> << >>]

InitAnalyzer ==
  /\ a_pc = "idle"
  /\ cat_i = 0
  /\ q_j = 0
  /\ results = EmptyResults
  /\ category_result = EmptyCategory
  /\ analysis_results = EmptyResults
  /\ a_out = "none"
  /\ a_prev = EmptyResults
  /\ chats = 0

InitConverter ==
  /\ req_use_mineru \in BOOLEAN
  /\ \E token_arg \in {"", "tok"}, token_env \in {"", "tok"} :
       /\ mineru_token = PyOr(token_arg, token_env)
       /\ use_mineru = InitUseMineru(req_use_mineru, mineru_token)
  /\ pc = "idle"
  /\ retry = 0
  /\ call = NoCall
  /\ returned = {}

\* no messages are under construction
InitMessages ==
  /\ m_pc = "idle"
  /\ m_in = [doc |-> "none", cat |-> 0, q |-> 0]
  /\ loadable = {}
  /\ messages = << >>

NoReport == [exists |-> FALSE, content |-> << >>, from |-> EmptyResults,
             time |-> "none"]

\* nothing runs besides the converter and the analyzer
InitRest ==
  /\ reports = [d \in Papers |-> NoReport]
  /\ s_out = "none"
  /\ report_dir = FALSE
  /\ p_pc = "idle"
  /\ p_doc = "none"
  /\ p_out = << "none", "none" >>
  /\ p_prompt = "none"
  /\ markdown_path = "none"
  /\ p_remote = FALSE
  /\ pdf_files = << >>
  /\ b_pc = "idle"
  /\ b_i = 0
  /\ b_results = << >>
  /\ successful = 0
  /\ failed = 0
  /\ b_log = << >>
  /\ e_pc = "idle"
  /\ content = << >>
  /\ disk = {}
  /\ image_paths = << >>
  /\ InitMessages
  /\ th = << >>

Init ==
  /\ InitConverter
  /\ InitAnalyzer
  /\ InitRest
  /\ md = [d \in Papers |-> NoFile]

\* ------------------------------------------------------------------------
\* PDFConverter.convert_to_markdown
\* ------------------------------------------------------------------------

\* return str(output_path)
ReturnPath(c) ==
  /\ pc' = "idle"
  /\ call' = [c EXCEPT !.result = "path"]
  /\ returned' = returned \cup {c.doc}

Propagate_swallow(c, err) ==
  /\ pc' = "idle"
  /\ call' = IF c.remote_err # "none"
              THEN [c EXCEPT !.result = "path"]
              ELSE [c EXCEPT !.result = "raised", !.error = err]
  /\ UNCHANGED returned

\* an exception leaves convert_to_markdown
Propagate(c, err) ==
  /\ pc' = "idle"
  /\ call' = [c EXCEPT !.result = "raised", !.error = err]
  /\ UNCHANGED returned

RaiseFromMineru_propagate(c, err) ==
  Propagate([c EXCEPT !.remote_err = err], err)

\* an exception leaves _convert_with_mineru: the except clause logs it and
\* control falls through to _convert_with_pymupdf
RaiseFromMineru(c, err) ==
  /\ pc' = "l_convert"
  /\ call' = [c EXCEPT !.remote_err = err, !.local = @ + 1]
  /\ UNCHANGED returned

\* the call up to the choice of the conversion strategy
ConvertToMarkdown(d, src_exists) ==
  /\ pc = "idle"
  /\ retry' = 0
  /\ LET c == [NoCall EXCEPT !.doc = d, !.src_ok = src_exists,
                             !.pre_exists = md[d].exists,
                             !.again = (d \in returned),
                             !.before = md[d]]
     IN  IF ~src_exists
           THEN Propagate(c, "FileNotFoundError")
         ELSE IF md[d].exists
           THEN ReturnPath(c)
         ELSE IF use_mineru
           THEN /\ pc' = "m_post"
                /\ call' = [c EXCEPT !.mineru = 1]
                /\ UNCHANGED returned
         ELSE /\ pc' = "l_convert"
              /\ call' = [c EXCEPT !.local = 1]
              /\ UNCHANGED returned
  /\ UNCHANGED << req_use_mineru, use_mineru, mineru_token, md >>
  /\ UNCHANGED << ana_vars, rep_vars, pipe_vars, batch_vars, ext_vars, th >>

\* ------------------------------------------------------------------------
\* PDFConverter._convert_with_mineru
\* ------------------------------------------------------------------------

PostOutcomes == {"ok", "http_error", "bad_code"}

PutOutcomes == {"ok", "error"}

\* what one status request can bring back: a transport error, a payload
\* without extract_result, a state other than done, done without
\* full_zip_url, done with it
PollResponses == {"error", "empty", "pending", "failed", "done_nolink", "done"}

DownloadOutcomes == {"error", "bad_zip", "no_full_md", "full_md"}

\* 1. request the upload url
MineruPost ==
  /\ pc = "m_post"
  /\ \E out \in PostOutcomes :
       LET c == [call EXCEPT !.posts = @ + 1, !.post_outcome = out]
       IN  IF out = "ok"
             THEN /\ pc' = "m_put"
                  /\ call' = c
                  /\ UNCHANGED returned
             ELSE RaiseFromMineru(c, "submission")
  /\ UNCHANGED << req_use_mineru, use_mineru, mineru_token, md, retry >>
  /\ UNCHANGED << ana_vars, rep_vars, pipe_vars, batch_vars, ext_vars, th >>

MineruPut_unchecked ==
  /\ pc = "m_put"
  /\ \E out \in PutOutcomes :
       /\ pc' = "m_poll"
       /\ call' = [call EXCEPT !.puts = @ + 1, !.put_outcome = out]
       /\ UNCHANGED returned
  /\ retry' = 0
  /\ UNCHANGED << req_use_mineru, use_mineru, mineru_token, md >>
  /\ UNCHANGED << ana_vars, rep_vars, pipe_vars, batch_vars, ext_vars, th >>

\* 2. upload the PDF; on success the polling loop is set up
MineruPut ==
  /\ pc = "m_put"
  /\ \E out \in PutOutcomes :
       LET c == [call EXCEPT !.puts = @ + 1, !.put_outcome = out]
       IN  IF out = "ok"
             THEN /\ pc' = "m_poll"
                  /\ call' = c
                  /\ UNCHANGED returned
             ELSE RaiseFromMineru(c, "upload")
  /\ retry' = 0
  /\ UNCHANGED << req_use_mineru, use_mineru, mineru_token, md >>
  /\ UNCHANGED << ana_vars, rep_vars, pipe_vars, batch_vars, ext_vars, th >>

\* 3. one iteration of the polling loop: sleep, status request, test of the
\*    state, retry += 1
MineruPoll ==
  /\ pc = "m_poll"
  /\ retry < max_retry
  /\ \E resp \in PollResponses :
       LET c == [call EXCEPT !.polls = @ + 1, !.last_poll = resp]
       IN  CASE resp = "error" ->
                  /\ RaiseFromMineru(c, "poll")
                  /\ UNCHANGED retry
             [] resp = "done_nolink" ->
                  /\ RaiseFromMineru(c, "no_link")
                  /\ UNCHANGED retry
             [] resp = "done" ->
                  /\ pc' = "m_download"
                  /\ call' = c
                  /\ UNCHANGED << returned, retry >>
             [] OTHER ->
                  /\ pc' = "m_poll"
                  /\ call' = c
                  /\ retry' = retry + 1
                  /\ UNCHANGED returned
  /\ UNCHANGED << req_use_mineru, use_mineru, mineru_token, md >>
  /\ UNCHANGED << ana_vars, rep_vars, pipe_vars, batch_vars, ext_vars, th >>

\* the loop condition fails: raise Exception("conversion timed out")
MineruTimeout ==
  /\ pc = "m_poll"
  /\ ~(retry < max_retry)
  /\ RaiseFromMineru(call, "timeout")
  /\ UNCHANGED << req_use_mineru, use_mineru, mineru_token, md, retry >>
  /\ UNCHANGED << ana_vars, rep_vars, pipe_vars, batch_vars, ext_vars, th >>

MineruInterrupt_caught ==
  /\ pc = "m_poll"
  /\ retry < max_retry
  /\ RaiseFromMineru(call, "KeyboardInterrupt")
  /\ UNCHANGED << req_use_mineru, use_mineru, mineru_token, md, retry >>
  /\ UNCHANGED << ana_vars, rep_vars, pipe_vars, batch_vars, ext_vars, th >>

\* Ctrl+C while the loop sleeps or waits for the status response:
\* KeyboardInterrupt is not an Exception, so the except clause of
\* convert_to_markdown does not catch it and it leaves the call
MineruInterrupt ==
  /\ pc = "m_poll"
  /\ retry < max_retry
  /\ Propagate(call, "KeyboardInterrupt")
  /\ UNCHANGED << req_use_mineru, use_mineru, mineru_token, md, retry >>
  /\ UNCHANGED << ana_vars, rep_vars, pipe_vars, batch_vars, ext_vars, th >>

\* 4. download the result archive to the .zip next to the output path
MineruDownload ==
  /\ pc = "m_download"
  /\ \E out \in DownloadOutcomes :
       IF out = "error"
         THEN RaiseFromMineru(call, "download")
         ELSE /\ pc' = "m_unzip"
              /\ call' = [call EXCEPT !.archive = out]
              /\ UNCHANGED returned
  /\ UNCHANGED << req_use_mineru, use_mineru, mineru_token, md, retry >>
  /\ UNCHANGED << ana_vars, rep_vars, pipe_vars, batch_vars, ext_vars, th >>

\* 5. open the archive, copy full.md to the output path if the archive has
\*    it, extract images/, return str(output_path)
MineruUnzip ==
  /\ pc = "m_unzip"
  /\ LET d == call.doc
     IN  CASE call.archive = "bad_zip" ->
                /\ RaiseFromMineru(call, "archive")
                /\ UNCHANGED md
           [] call.archive = "full_md" ->
                \E out \in {"ok", "copy_error", "images_error"} :
                  CASE out = "copy_error" ->
                         /\ \E n \in 0 .. TextLen - 1 :
                              md' = [md EXCEPT ![d] = FileOf("mineru", n)]
                         /\ RaiseFromMineru(call, "archive")
                    [] out = "images_error" ->
                         /\ md' = [md EXCEPT ![d] = FileOf("mineru", TextLen)]
                         /\ RaiseFromMineru(call, "archive")
                    [] OTHER ->
                         /\ md' = [md EXCEPT ![d] = FileOf("mineru", TextLen)]
                         /\ ReturnPath(call)
           [] OTHER ->
                \E out \in {"ok", "images_error"} :
                  /\ UNCHANGED md
                  /\ IF out = "images_error"
                       THEN RaiseFromMineru(call, "archive")
                       ELSE ReturnPath(call)
  /\ UNCHANGED << req_use_mineru, use_mineru, mineru_token, retry >>
  /\ UNCHANGED << ana_vars, rep_vars, pipe_vars, batch_vars, ext_vars, th >>

\* ------------------------------------------------------------------------
\* PDFConverter._convert_with_pymupdf
\* ------------------------------------------------------------------------

\* import pymupdf4llm; md_text = pymupdf4llm.to_markdown(str(pdf_path))
LocalConvert ==
  /\ pc = "l_convert"
  /\ \E out \in {"ok", "ImportError", "extract_error"} :
       IF out = "ok"
         THEN /\ pc' = "l_open"
              /\ UNCHANGED << call, returned >>
         ELSE Propagate(call, out)
  /\ UNCHANGED << req_use_mineru, use_mineru, mineru_token, md, retry >>
  /\ UNCHANGED << ana_vars, rep_vars, pipe_vars, batch_vars, ext_vars, th >>

\* open(output_path, 'w'): the file is created, or truncated, at the
\* output path itself
LocalOpen ==
  /\ pc = "l_open"
  /\ \E out \in {"ok", "OSError"} :
       IF out = "ok"
         THEN /\ pc' = "l_write"
              /\ md' = [md EXCEPT ![call.doc] = FileOf("local", 0)]
              /\ UNCHANGED << call, returned >>
         ELSE /\ Propagate(call, out)
              /\ UNCHANGED md
  /\ UNCHANGED << req_use_mineru, use_mineru, mineru_token, retry >>
  /\ UNCHANGED << ana_vars, rep_vars, pipe_vars, batch_vars, ext_vars, th >>

\* f.write(md_text), one piece of the text at a time; after the last piece
\* the file is closed and str(output_path) returned
LocalWrite ==
  /\ pc = "l_write"
  /\ LET d == call.doc
     IN  \E out \in {"ok", "OSError"} :
           IF out = "ok"
             THEN /\ md' = [md EXCEPT ![d].len = @ + 1]
                  /\ IF md[d].len + 1 = TextLen
                       THEN ReturnPath(call)
                       ELSE UNCHANGED << pc, call, returned >>
             ELSE /\ Propagate(call, out)
                  /\ UNCHANGED md
  /\ UNCHANGED << req_use_mineru, use_mineru, mineru_token, retry >>
  /\ UNCHANGED << ana_vars, rep_vars, pipe_vars, batch_vars, ext_vars, th >>

NextConvert ==
  \/ \E d \in Docs, src_exists \in BOOLEAN : ConvertToMarkdown(d, src_exists)
  \/ MineruPost
  \/ MineruPut
  \/ MineruPoll
  \/ MineruTimeout
  \/ MineruDownload
  \/ MineruUnzip
  \/ LocalConvert
  \/ LocalOpen
  \/ LocalWrite

SpecConvert == Init /\ [][NextConvert]_vars

\* the converter with a user who may press Ctrl+C during the polling
NextCancel ==
  \/ NextConvert
  \/ MineruInterrupt

SpecCancel == Init /\ [][NextCancel]_vars

\* ------------------------------------------------------------------------
\* PaperAnalyzer.extract_images_from_markdown
\* ------------------------------------------------------------------------

\* the pieces a markdown text is made of: an image reference into images/,
\* an image reference to another place, a link that is not an image, and
\* text without references
Pieces ==
  [kind : {"image"}, dir : {"images", "figures"}, name : Names]
    \cup [kind : {"link"}, dir : {"images"}, name : Names]
    \cup {[kind |-> "text", dir |-> "none", name |-> "none"]}

Texts == UNION {[1 .. n -> Pieces] : n \in 0 .. MaxPieces}

\* re.findall of the pattern for ![...](images/...): the targets of the
\* image references into images/, in the order of the text
RECURSIVE FindAll(_)
FindAll(text) ==
  IF text = << >>
    THEN << >>
    ELSE (IF Head(text).kind = "image" /\ Head(text).dir = "images"
            THEN << Head(text).name >>
            ELSE << >>)
         \o FindAll(Tail(text))

ExistingPaths_all(image_refs, files) == image_refs

\* the loop over image_refs: the paths that exist are kept
RECURSIVE ExistingPaths(_, _)
ExistingPaths(image_refs, files) ==
  IF image_refs = << >>
    THEN << >>
    ELSE (IF Head(image_refs) \in files
            THEN << Head(image_refs) >>
            ELSE << >>)
         \o ExistingPaths(Tail(image_refs), files)

\* extract_images_from_markdown: the file is read, the references are
\* found and those whose path exists are returned
ExtractImagesFromMarkdown ==
  /\ e_pc = "called"
  /\ e_pc' = "returned"
  /\ image_paths' = ExistingPaths(FindAll(content), disk)
  /\ UNCHANGED << content, disk, msg_vars >>
  /\ UNCHANGED << conv_vars, ana_vars, rep_vars, pipe_vars, batch_vars, th >>

\* the call is made on a markdown file with some text, next to an images/
\* directory with some files
InitExtract ==
  /\ InitConverter
  /\ InitAnalyzer
  /\ md = [d \in Papers |-> NoFile]
  /\ reports = [d \in Papers |-> NoReport]
  /\ s_out = "none"
  /\ report_dir = FALSE
  /\ p_pc = "idle"
  /\ p_doc = "none"
  /\ p_out = << "none", "none" >>
  /\ p_prompt = "none"
  /\ markdown_path = "none"
  /\ p_remote = FALSE
  /\ pdf_files = << >>
  /\ b_pc = "idle"
  /\ b_i = 0
  /\ b_results = << >>
  /\ successful = 0
  /\ failed = 0
  /\ b_log = << >>
  /\ th = << >>
  /\ e_pc = "called"
  /\ content \in Texts
  /\ disk \in SUBSET Names
  /\ image_paths = << >>
  /\ InitMessages

NextExtract == ExtractImagesFromMarkdown

SpecExtract == InitExtract /\ [][NextExtract]_vars

\* ------------------------------------------------------------------------
\* PaperAnalyzer.analyze_paper
\* ------------------------------------------------------------------------

\* the reply of the backend to the prompt built from the text of document d
\* and question q
Reply(d, q) == << "reply", d, q >>

AppendQA_front(qa_pairs, question, answer) ==
  << [question |-> question, answer |-> answer] >> \o qa_pairs

\* category_result["qa_pairs"].append({"question": ..., "answer": ...})
AppendQA(qa_pairs, question, answer) ==
  Append(qa_pairs, [question |-> question, answer |-> answer])

\* results["categories"].append(category_result)
AppendCategory(categories, cr) == Append(categories, cr)

\* an exception leaves analyze_paper: the locals are lost and
\* self.analysis_results is as it was
AnalyzeRaise_store(err) ==
  /\ a_pc' = "idle"
  /\ a_out' = err
  /\ analysis_results' =
       [results EXCEPT !.categories = Append(@, category_result)]

AnalyzeRaise(err) ==
  /\ a_pc' = "idle"
  /\ a_out' = err
  /\ UNCHANGED analysis_results

\* the text of the markdown file is read, the images are extracted and
\* results is created
AnalyzePaper(d) ==
  /\ a_pc = "idle"
  /\ pc = "idle"
  /\ a_prev' = analysis_results
  /\ chats' = 0
  /\ IF ~md[d].exists
       THEN /\ AnalyzeRaise("FileNotFoundError")
            /\ UNCHANGED << cat_i, q_j, results, category_result >>
       ELSE /\ a_pc' = "category"
            /\ a_out' = "running"
            /\ results' = [paper_path |-> d, categories |-> << >>]
            /\ cat_i' = 1
            /\ q_j' = 0
            /\ category_result' = EmptyCategory
            /\ UNCHANGED analysis_results
  /\ UNCHANGED << conv_vars, rep_vars, pipe_vars, batch_vars, ext_vars, th >>

\* head of "for category_info in self.ANALYSIS_QUESTIONS": a new
\* category_result, or, after the last category, the assignment of
\* self.analysis_results and the return
NextCategory ==
  /\ a_pc = "category"
  /\ IF cat_i <= Len(ANALYSIS_QUESTIONS)
       THEN /\ category_result' =
                 [category |-> ANALYSIS_QUESTIONS[cat_i].category,
                  qa_pairs |-> << >>]
            /\ q_j' = 1
            /\ a_pc' = "question"
            /\ UNCHANGED << analysis_results, a_out, results, cat_i >>
       ELSE /\ analysis_results' = results
            /\ a_pc' = "idle"
            /\ a_out' = "returned"
            /\ UNCHANGED << results, cat_i, q_j, category_result >>
  /\ UNCHANGED << a_prev, chats >>
  /\ UNCHANGED << conv_vars, rep_vars, pipe_vars, batch_vars, ext_vars, th >>

AskQuestion_twice ==
  /\ a_pc = "question"
  /\ q_j <= Len(ANALYSIS_QUESTIONS[cat_i].questions)
  /\ chats' = chats + 2
  /\ UNCHANGED a_prev
  /\ LET question == ANALYSIS_QUESTIONS[cat_i].questions[q_j]
     IN  \E chat \in {"ok", "error"} :
           IF chat = "error"
             THEN /\ AnalyzeRaise("chat_error")
                  /\ UNCHANGED << cat_i, q_j, results, category_result >>
             ELSE /\ category_result' =
                       [category_result EXCEPT !.qa_pairs =
                          AppendQA(@, question,
                                   Reply(results.paper_path, question))]
                  /\ q_j' = q_j + 1
                  /\ UNCHANGED << a_pc, a_out, analysis_results, cat_i,
                                  results >>
  /\ UNCHANGED << conv_vars, rep_vars, pipe_vars, batch_vars, ext_vars, th >>

\* one question: the messages are built, self.llm.chat(messages) is called
\* and the pair of question and answer is recorded
AskQuestion ==
  /\ a_pc = "question"
  /\ q_j <= Len(ANALYSIS_QUESTIONS[cat_i].questions)
  /\ chats' = chats + 1
  /\ UNCHANGED a_prev
  /\ LET question == ANALYSIS_QUESTIONS[cat_i].questions[q_j]
     IN  \E chat \in {"ok", "error"} :
           IF chat = "error"
             THEN /\ AnalyzeRaise("chat_error")
                  /\ UNCHANGED << cat_i, q_j, results, category_result >>
             ELSE /\ category_result' =
                       [category_result EXCEPT !.qa_pairs =
                          AppendQA(@, question,
                                   Reply(results.paper_path, question))]
                  /\ q_j' = q_j + 1
                  /\ UNCHANGED << a_pc, a_out, analysis_results, cat_i,
                                  results >>
  /\ UNCHANGED << conv_vars, rep_vars, pipe_vars, batch_vars, ext_vars, th >>

\* the questions of the category are exhausted:
\* results["categories"].append(category_result)
EndCategory ==
  /\ a_pc = "question"
  /\ q_j > Len(ANALYSIS_QUESTIONS[cat_i].questions)
  /\ results' = [results EXCEPT !.categories =
                   AppendCategory(@, category_result)]
  /\ cat_i' = cat_i + 1
  /\ a_pc' = "category"
  /\ UNCHANGED << q_j, category_result, analysis_results, a_out, a_prev,
                  chats >>
  /\ UNCHANGED << conv_vars, rep_vars, pipe_vars, batch_vars, ext_vars, th >>

\* ------------------------------------------------------------------------
\* The messages of one question (the body of the inner loop of
\* analyze_paper up to the chat call)
\* ------------------------------------------------------------------------

ImageLists == UNION {[1 .. n -> Names] : n \in 0 .. MaxImages}

\* the prompt strategy of the category: "basic_info" is strict
SystemPrompt(category) ==
  IF category = "basic_info" THEN "system_strict" ELSE "system_concise"

Requirement(category) ==
  IF category = "basic_info" THEN "at_most_60" ELSE "at_most_10_points"

FirstPaths_all(paths) == paths

\* image_paths[:5]
FirstPaths(paths) ==
  SubSeq(paths, 1, IF Len(paths) < MaxAttachments THEN Len(paths)
                                                  ELSE MaxAttachments)

\* "for img_path in image_paths[:5]": an image part is appended for each
\* image image_to_base64 loads; an image that raises is skipped with a
\* warning
RECURSIVE AttachImages(_, _, _)
AttachImages(user_content, paths, ok) ==
  IF paths = << >>
    THEN user_content
    ELSE AttachImages(IF Head(paths) \in ok
                        THEN Append(user_content,
                                    [type |-> "image_url", url |-> Head(paths)])
                        ELSE user_content,
                      Tail(paths), ok)

\* user_content and messages of one question
BuildMessages ==
  /\ m_pc = "called"
  /\ m_pc' = "sent"
  /\ LET category == ANALYSIS_QUESTIONS[m_in.cat].category
         question == ANALYSIS_QUESTIONS[m_in.cat].questions[m_in.q]
         text_part == [type |-> "text",
                       text |-> << m_in.doc, question,
                                   Requirement(category) >>]
     IN  messages' =
           << [role |-> "system", content |-> SystemPrompt(category)],
              [role |-> "user",
               content |-> AttachImages(<< text_part >>,
                                        FirstPaths(image_paths), loadable)] >>
  /\ UNCHANGED << m_in, loadable, e_pc, content, disk, image_paths >>
  /\ UNCHANGED << conv_vars, ana_vars, rep_vars, pipe_vars, batch_vars, th >>

\* a question of a document whose images were extracted; some of them
\* cannot be loaded
InitBuild ==
  /\ InitConverter
  /\ InitAnalyzer
  /\ md = [d \in Papers |-> NoFile]
  /\ reports = [d \in Papers |-> NoReport]
  /\ s_out = "none"
  /\ report_dir = FALSE
  /\ p_pc = "idle"
  /\ p_doc = "none"
  /\ p_out = << "none", "none" >>
  /\ p_prompt = "none"
  /\ markdown_path = "none"
  /\ p_remote = FALSE
  /\ pdf_files = << >>
  /\ b_pc = "idle"
  /\ b_i = 0
  /\ b_results = << >>
  /\ successful = 0
  /\ failed = 0
  /\ b_log = << >>
  /\ th = << >>
  /\ e_pc = "returned"
  /\ content = << >>
  /\ disk = Names
  /\ image_paths \in ImageLists
  /\ loadable \in SUBSET Names
  /\ m_pc = "called"
  /\ \E d \in Docs, c \in 1 .. Len(ANALYSIS_QUESTIONS) :
       \E j \in 1 .. Len(ANALYSIS_QUESTIONS[c].questions) :
         m_in = [doc |-> d, cat |-> c, q |-> j]
  /\ messages = << >>

NextBuild == BuildMessages

SpecBuild == InitBuild /\ [][NextBuild]_vars

\* ------------------------------------------------------------------------
\* PaperAnalyzer.save_analysis_report
\* ------------------------------------------------------------------------

RECURSIVE RenderQAs_noseparator(_)
RenderQAs_noseparator(qa_pairs) ==
  IF qa_pairs = << >>
    THEN << >>
    ELSE << << "h3", Head(qa_pairs).question >>,
            << "text", Head(qa_pairs).answer >> >>
         \o RenderQAs_noseparator(Tail(qa_pairs))

\* "for qa_pair in category_result['qa_pairs']": the heading of the
\* question, the answer, a rule
RECURSIVE RenderQAs(_)
RenderQAs(qa_pairs) ==
  IF qa_pairs = << >>
    THEN << >>
    ELSE << << "h3", Head(qa_pairs).question >>,
            << "text", Head(qa_pairs).answer >>,
            << "rule" >> >>
         \o RenderQAs(Tail(qa_pairs))

\* "for category_result in self.analysis_results['categories']": the
\* heading of the category and its questions
RECURSIVE RenderCategories(_)
RenderCategories(categories) ==
  IF categories = << >>
    THEN << >>
    ELSE << << "h2", Head(categories).category >> >>
         \o RenderQAs(Head(categories).qa_pairs)
         \o RenderCategories(Tail(categories))

\* the header: title, analysed paper, generation time, a rule
RenderHeader(res, time) ==
  << << "title" >>, << "paper", res.paper_path >>, << "time", time >>,
     << "rule" >> >>

ReportContent_path(res, time, output_path) ==
  << << "title" >>, << "paper", output_path >>, << "time", time >>,
     << "rule" >> >>
  \o RenderCategories(res.categories)

\* everything save_analysis_report writes to the file at output_path when
\* self.analysis_results is res and _get_current_time() gives time
ReportContent(res, time, output_path) ==
  RenderHeader(res, time) \o RenderCategories(res.categories)

SaveAnalysisReport_mkdirfirst(d, t) ==
  /\ a_pc = "idle"
  /\ pc = "idle"
  /\ IF analysis_results = EmptyResults
       THEN /\ s_out' = "ValueError"
            /\ report_dir' = TRUE
            /\ UNCHANGED reports
       ELSE \E out \in {"ok", "mkdir_error", "open_error"} :
              /\ report_dir' = (report_dir \/ out # "mkdir_error")
              /\ IF out = "ok"
                   THEN /\ reports' =
                             [reports EXCEPT ![d] =
                                [exists |-> TRUE,
                                 content |->
                                   ReportContent(analysis_results, t, d),
                                 from |-> analysis_results,
                                 time |-> t]]
                        /\ s_out' = "saved"
                   ELSE /\ s_out' = "OSError"
                        /\ UNCHANGED reports
  /\ UNCHANGED << conv_vars, ana_vars, pipe_vars, batch_vars, ext_vars, th >>

\* save_analysis_report(report path of d) at time t: without a result
\* ValueError is raised at once; otherwise the directory of the path is
\* made and the file written, each of which can fail
SaveAnalysisReport(d, t) ==
  /\ a_pc = "idle"
  /\ pc = "idle"
  /\ IF analysis_results = EmptyResults
       THEN /\ s_out' = "ValueError"
            /\ UNCHANGED << reports, report_dir >>
       ELSE \E out \in {"ok", "mkdir_error", "open_error"} :
              /\ report_dir' = (report_dir \/ out # "mkdir_error")
              /\ IF out = "ok"
                   THEN /\ reports' =
                             [reports EXCEPT ![d] =
                                [exists |-> TRUE,
                                 content |->
                                   ReportContent(analysis_results, t, d),
                                 from |-> analysis_results,
                                 time |-> t]]
                        /\ s_out' = "saved"
                   ELSE /\ s_out' = "OSError"
                        /\ UNCHANGED reports
  /\ UNCHANGED << conv_vars, ana_vars, pipe_vars, batch_vars, ext_vars, th >>

\* ------------------------------------------------------------------------
\* PaperReadingAgent.process_paper
\* ------------------------------------------------------------------------

\* process_paper(pdf_path of d, output_dir) is entered
ProcessPaper(d) ==
  /\ p_pc = "idle"
  /\ pc = "idle"
  /\ a_pc = "idle"
  /\ p_pc' = "convert"
  /\ p_doc' = d
  /\ p_out' = << "none", "none" >>
  /\ p_prompt' = "none"
  /\ markdown_path' = "none"
  /\ p_remote' = FALSE
  /\ call' = NoCall
  /\ retry' = 0
  /\ a_out' = "none"
  /\ a_prev' = EmptyResults
  /\ chats' = 0
  /\ cat_i' = 0
  /\ q_j' = 0
  /\ results' = EmptyResults
  /\ category_result' = EmptyCategory
  /\ s_out' = "none"
  /\ UNCHANGED << req_use_mineru, use_mineru, mineru_token, md, pc, returned,
                  a_pc, analysis_results, reports, report_dir, batch_vars,
                  ext_vars, th >>

\* step 1: self.pdf_converter.convert_to_markdown(pdf_path, output_dir)
CallConvert ==
  /\ p_pc = "convert"
  /\ call.doc = "none"
  /\ \E src_exists \in BOOLEAN : ConvertToMarkdown(p_doc, src_exists)

AfterConvert_unguarded ==
  /\ p_pc = "convert"
  /\ pc = "idle"
  /\ call.doc = p_doc
  /\ \E answer \in {"enter", "KeyboardInterrupt", "EOFError"} :
       /\ p_prompt' = answer
       /\ markdown_path' = p_doc
       /\ CASE answer = "KeyboardInterrupt" ->
                 /\ p_pc' = "ended"
                 /\ p_out' = << "markdown", p_doc >>
            [] answer = "EOFError" ->
                 /\ p_pc' = "ended"
                 /\ p_out' = << "raised", answer >>
            [] OTHER ->
                 /\ p_pc' = "analyze"
                 /\ UNCHANGED p_out
  /\ p_remote' = (call.remote_err # "none")
  /\ call' = NoCall
  /\ retry' = 0
  /\ UNCHANGED << p_doc, req_use_mineru, use_mineru, mineru_token, md, pc,
                  returned, ana_vars, rep_vars, batch_vars, ext_vars, th >>

AfterConvert_noabort ==
  /\ p_pc = "convert"
  /\ pc = "idle"
  /\ call.doc = p_doc
  /\ IF call.result = "raised"
       THEN /\ p_pc' = "ended"
            /\ p_out' = << "raised", call.error >>
            /\ UNCHANGED << p_prompt, markdown_path >>
       ELSE \E answer \in {"enter", "KeyboardInterrupt", "EOFError"} :
              /\ p_prompt' = answer
              /\ markdown_path' = p_doc
              /\ IF answer = "EOFError"
                   THEN /\ p_pc' = "ended"
                        /\ p_out' = << "raised", answer >>
                   ELSE /\ p_pc' = "analyze"
                        /\ UNCHANGED p_out
  /\ p_remote' = (call.remote_err # "none")
  /\ call' = NoCall
  /\ retry' = 0
  /\ UNCHANGED << p_doc, req_use_mineru, use_mineru, mineru_token, md, pc,
                  returned, ana_vars, rep_vars, batch_vars, ext_vars, th >>

\* convert_to_markdown is over: its exception leaves process_paper, or
\* markdown_path is assigned and printed and input() waits at the
\* confirmation prompt; Ctrl+C there returns markdown_path, Enter goes on
\* to the analysis. The record of the converter call is dropped.
AfterConvert ==
  /\ p_pc = "convert"
  /\ pc = "idle"
  /\ call.doc = p_doc
  /\ IF call.result = "raised"
       THEN /\ p_pc' = "ended"
            /\ p_out' = << "raised", call.error >>
            /\ UNCHANGED << p_prompt, markdown_path >>
       ELSE \E answer \in {"enter", "KeyboardInterrupt", "EOFError"} :
              /\ p_prompt' = answer
              /\ markdown_path' = p_doc
              /\ CASE answer = "KeyboardInterrupt" ->
                        /\ p_pc' = "ended"
                        /\ p_out' = << "markdown", p_doc >>
                   [] answer = "EOFError" ->
                        /\ p_pc' = "ended"
                        /\ p_out' = << "raised", answer >>
                   [] OTHER ->
                        /\ p_pc' = "analyze"
                        /\ UNCHANGED p_out
  /\ p_remote' = (call.remote_err # "none")
  /\ call' = NoCall
  /\ retry' = 0
  /\ UNCHANGED << p_doc, req_use_mineru, use_mineru, mineru_token, md, pc,
                  returned, ana_vars, rep_vars, batch_vars, ext_vars, th >>

\* step 2: self.analyzer.analyze_paper(markdown_path)
CallAnalyze ==
  /\ p_pc = "analyze"
  /\ a_out = "none"
  /\ AnalyzePaper(markdown_path)

\* analyze_paper is over: its exception leaves process_paper, or the report
\* path is computed
AfterAnalyze ==
  /\ p_pc = "analyze"
  /\ a_pc = "idle"
  /\ a_out \notin {"none", "running"}
  /\ IF a_out = "returned"
       THEN /\ p_pc' = "report"
            /\ UNCHANGED p_out
       ELSE /\ p_pc' = "ended"
            /\ p_out' = << "raised", a_out >>
  /\ UNCHANGED << p_doc, p_prompt, markdown_path, p_remote, conv_vars,
                  ana_vars, rep_vars, batch_vars, ext_vars, th >>

\* step 3: self.analyzer.save_analysis_report(str(report_path))
CallSave ==
  /\ p_pc = "report"
  /\ s_out = "none"
  /\ \E t \in Times : SaveAnalysisReport(p_doc, t)

\* save_analysis_report is over: its exception leaves process_paper, or the
\* report path is returned
AfterSave ==
  /\ p_pc = "report"
  /\ s_out # "none"
  /\ p_pc' = "ended"
  /\ p_out' = IF s_out = "saved" THEN << "report", p_doc >>
                                 ELSE << "raised", s_out >>
  /\ UNCHANGED << p_doc, p_prompt, markdown_path, p_remote, conv_vars,
                  ana_vars, rep_vars, batch_vars, ext_vars, th >>

\* ------------------------------------------------------------------------
\* PaperReadingAgent.batch_process_papers
\* ------------------------------------------------------------------------

\* the lists glob can find in the papers directory: up to three files when
\* the converter works locally, up to two when it uses the remote service
BatchInputs ==
  IF use_mineru
    THEN {<< >>, << "p1" >>, << "p1", "p2" >>}
    ELSE {<< >>, << "p1" >>, << "p1", "p2" >>, << "p1", "p2", "p3" >>}

\* batch_process_papers up to the loop: the directories are made and the
\* PDF files listed; without files the empty list is returned
BatchProcessPapers(files) ==
  /\ b_pc = "idle"
  /\ p_pc = "idle"
  /\ pdf_files' = files
  /\ b_results' = << >>
  /\ successful' = 0
  /\ failed' = 0
  /\ b_log' = << >>
  /\ IF files = << >>
       THEN /\ b_pc' = "done"
            /\ b_i' = 0
       ELSE /\ b_pc' = "loop"
            /\ b_i' = 1
  /\ report_dir' = TRUE
  /\ UNCHANGED << reports, s_out >>
  /\ UNCHANGED << conv_vars, ana_vars, pipe_vars, ext_vars, th >>

\* the body of the loop calls process_paper for pdf_files[b_i]
BatchCall ==
  /\ b_pc = "loop"
  /\ b_i <= Len(pdf_files)
  /\ ProcessPaper(pdf_files[b_i])

BatchHandle_noexcept ==
  /\ b_pc = "loop"
  /\ p_pc = "ended"
  /\ p_pc' = "idle"
  /\ b_log' = Append(b_log, [doc |-> p_doc, out |-> p_out,
                             markdown_path |-> markdown_path,
                             remote_failed |-> p_remote])
  /\ IF p_out[1] = "raised"
       THEN /\ b_pc' = "done"
            /\ UNCHANGED << b_results, successful, failed, b_i >>
       ELSE /\ b_results' = Append(b_results, p_out)
            /\ successful' = successful + 1
            /\ b_i' = b_i + 1
            /\ b_pc' = IF b_i + 1 > Len(pdf_files) THEN "done" ELSE "loop"
            /\ UNCHANGED failed
  /\ UNCHANGED << pdf_files, p_doc, p_out, p_prompt, markdown_path,
                  p_remote, conv_vars, ana_vars, rep_vars, ext_vars, th >>

BatchHandle_nocount ==
  /\ b_pc = "loop"
  /\ p_pc = "ended"
  /\ p_pc' = "idle"
  /\ b_log' = Append(b_log, [doc |-> p_doc, out |-> p_out,
                             markdown_path |-> markdown_path,
                             remote_failed |-> p_remote])
  /\ IF p_out[1] = "raised"
       THEN UNCHANGED << b_results, successful, failed >>
       ELSE /\ b_results' = Append(b_results, p_out)
            /\ successful' = successful + 1
            /\ UNCHANGED failed
  /\ b_i' = b_i + 1
  /\ b_pc' = IF b_i + 1 > Len(pdf_files) THEN "done" ELSE "loop"
  /\ UNCHANGED << pdf_files, p_doc, p_out, p_prompt, markdown_path,
                  p_remote, conv_vars, ana_vars, rep_vars, ext_vars, th >>

BatchHandle_appendall ==
  /\ b_pc = "loop"
  /\ p_pc = "ended"
  /\ p_pc' = "idle"
  /\ b_log' = Append(b_log, [doc |-> p_doc, out |-> p_out,
                             markdown_path |-> markdown_path,
                             remote_failed |-> p_remote])
  /\ IF p_out[1] = "raised"
       THEN /\ failed' = failed + 1
            /\ b_results' = Append(b_results, p_out)
            /\ UNCHANGED successful
       ELSE /\ b_results' = Append(b_results, p_out)
            /\ successful' = successful + 1
            /\ UNCHANGED failed
  /\ b_i' = b_i + 1
  /\ b_pc' = IF b_i + 1 > Len(pdf_files) THEN "done" ELSE "loop"
  /\ UNCHANGED << pdf_files, p_doc, p_out, p_prompt, markdown_path,
                  p_remote, conv_vars, ana_vars, rep_vars, ext_vars, th >>

\* process_paper is over: its path is appended to results and counted, or
\* its exception is caught, counted and printed; after the last file the
\* summary is printed and results returned
BatchHandle ==
  /\ b_pc = "loop"
  /\ p_pc = "ended"
  /\ p_pc' = "idle"
  /\ b_log' = Append(b_log, [doc |-> p_doc, out |-> p_out,
                             markdown_path |-> markdown_path,
                             remote_failed |-> p_remote])
  /\ IF p_out[1] = "raised"
       THEN /\ failed' = failed + 1
            /\ UNCHANGED << b_results, successful >>
       ELSE /\ b_results' = Append(b_results, p_out)
            /\ successful' = successful + 1
            /\ UNCHANGED failed
  /\ b_i' = b_i + 1
  /\ b_pc' = IF b_i + 1 > Len(pdf_files) THEN "done" ELSE "loop"
  /\ UNCHANGED << pdf_files, p_doc, p_out, p_prompt, markdown_path,
                  p_remote, conv_vars, ana_vars, rep_vars, ext_vars, th >>

NextBatch ==
  \/ \E files \in BatchInputs : BatchProcessPapers(files)
  \/ BatchCall
  \/ CallConvert
  \/ MineruPost
  \/ MineruPut
  \/ MineruPoll
  \/ MineruTimeout
  \/ MineruDownload
  \/ MineruUnzip
  \/ LocalConvert
  \/ LocalOpen
  \/ LocalWrite
  \/ AfterConvert
  \/ CallAnalyze
  \/ NextCategory
  \/ AskQuestion
  \/ EndCategory
  \/ AfterAnalyze
  \/ CallSave
  \/ AfterSave
  \/ BatchHandle

SpecBatch == Init /\ [][NextBatch]_vars

\* the analyzer runs on what earlier conversions left at the output paths
InitAnalyze ==
  /\ InitConverter
  /\ InitAnalyzer
  /\ InitRest
  /\ \E f \in [Docs -> {NoFile, FileOf("local", TextLen),
                         FileOf("mineru", TextLen)}] :
       md = [d \in Papers |-> IF d \in Docs THEN f[d] ELSE NoFile]

NextAnalyze ==
  \/ \E d \in Docs : AnalyzePaper(d)
  \/ NextCategory
  \/ AskQuestion
  \/ EndCategory
  \/ \E d \in Docs, t \in Times : SaveAnalysisReport(d, t)

SpecAnalyze == InitAnalyze /\ [][NextAnalyze]_vars

\* ------------------------------------------------------------------------
\* Two threads in process_paper on one agent, one per document, from the
\* call of analyze_paper on. Each thread has its own locals in th[d]; the
\* attribute self.analysis_results of the one PaperAnalyzer and the files
\* are shared.
\* ------------------------------------------------------------------------

ana_locals == << a_pc, cat_i, q_j, results, category_result, a_out, a_prev,
                 chats >>

ThreadFrame ==
  UNCHANGED << conv_vars, ana_locals, s_out, report_dir, pipe_vars, batch_vars,
               ext_vars >>

NoThread ==
  [pc |-> "analyze", cat_i |-> 0, q_j |-> 0, results |-> EmptyResults,
   category_result |-> EmptyCategory, header |-> << >>, out |-> "none"]

\* analyze_paper(markdown_path) of thread d up to the loop
ThAnalyzePaper(d) ==
  /\ th[d].pc = "analyze"
  /\ IF ~md[d].exists
       THEN th' = [th EXCEPT ![d].pc = "ended",
                             ![d].out = "FileNotFoundError"]
       ELSE th' = [th EXCEPT ![d].pc = "category",
                             ![d].results =
                               [paper_path |-> d, categories |-> << >>],
                             ![d].cat_i = 1]
  /\ UNCHANGED << analysis_results, reports >>
  /\ ThreadFrame

\* head of the loop over the categories in thread d; after the last
\* category self.analysis_results = results, and analyze_paper returns
ThNextCategory(d) ==
  /\ th[d].pc = "category"
  /\ IF th[d].cat_i <= Len(ANALYSIS_QUESTIONS)
       THEN /\ th' = [th EXCEPT ![d].category_result =
                                  [category |->
                                     ANALYSIS_QUESTIONS[th[d].cat_i].category,
                                   qa_pairs |-> << >>],
                                ![d].q_j = 1,
                                ![d].pc = "question"]
            /\ UNCHANGED analysis_results
       ELSE /\ analysis_results' = th[d].results
            /\ th' = [th EXCEPT ![d].pc = "save"]
  /\ UNCHANGED reports
  /\ ThreadFrame

\* one question in thread d: self.llm.chat(messages) and the append
ThAskQuestion(d) ==
  /\ th[d].pc = "question"
  /\ th[d].q_j <= Len(ANALYSIS_QUESTIONS[th[d].cat_i].questions)
  /\ LET question == ANALYSIS_QUESTIONS[th[d].cat_i].questions[th[d].q_j]
     IN  \E chat \in {"ok", "error"} :
           IF chat = "error"
             THEN th' = [th EXCEPT ![d].pc = "ended",
                                   ![d].out = "chat_error"]
             ELSE th' = [th EXCEPT
                           ![d].category_result.qa_pairs =
                             AppendQA(@, question,
                                      Reply(th[d].results.paper_path,
                                            question)),
                           ![d].q_j = @ + 1]
  /\ UNCHANGED << analysis_results, reports >>
  /\ ThreadFrame

\* results["categories"].append(category_result) in thread d
ThEndCategory(d) ==
  /\ th[d].pc = "question"
  /\ th[d].q_j > Len(ANALYSIS_QUESTIONS[th[d].cat_i].questions)
  /\ th' = [th EXCEPT ![d].results.categories =
                        AppendCategory(@, th[d].category_result),
                      ![d].cat_i = @ + 1,
                      ![d].pc = "category"]
  /\ UNCHANGED << analysis_results, reports >>
  /\ ThreadFrame

\* save_analysis_report in thread d: the test of self.analysis_results,
\* open(output_path, 'w') and the header, which reads
\* self.analysis_results['paper_path']
ThSaveHeader(d) ==
  /\ th[d].pc = "save"
  /\ IF analysis_results = EmptyResults
       THEN /\ th' = [th EXCEPT ![d].pc = "ended", ![d].out = "ValueError"]
            /\ UNCHANGED reports
       ELSE \E t \in Times :
              /\ th' = [th EXCEPT ![d].pc = "save_body",
                                  ![d].header =
                                    RenderHeader(analysis_results, t)]
              /\ reports' = [reports EXCEPT ![d] =
                               [exists |-> TRUE, content |-> << >>,
                                from |-> EmptyResults, time |-> t]]
  /\ UNCHANGED analysis_results
  /\ ThreadFrame

\* the loop over self.analysis_results["categories"] in thread d, the end
\* of the with block and the return of the report path
ThSaveBody(d) ==
  /\ th[d].pc = "save_body"
  /\ reports' = [reports EXCEPT
                   ![d].content =
                     th[d].header \o RenderCategories(analysis_results.categories),
                   ![d].from = analysis_results]
  /\ th' = [th EXCEPT ![d].pc = "ended", ![d].out = "report"]
  /\ UNCHANGED analysis_results
  /\ ThreadFrame

\* both markdown files are there, or one is missing
InitThreads ==
  /\ InitConverter
  /\ InitAnalyzer
  /\ e_pc = "idle"
  /\ content = << >>
  /\ disk = {}
  /\ image_paths = << >>
  /\ InitMessages
  /\ reports = [d \in Papers |-> NoReport]
  /\ s_out = "none"
  /\ report_dir = TRUE
  /\ p_pc = "idle"
  /\ p_doc = "none"
  /\ p_out = << "none", "none" >>
  /\ p_prompt = "none"
  /\ markdown_path = "none"
  /\ p_remote = FALSE
  /\ pdf_files = << >>
  /\ b_pc = "idle"
  /\ b_i = 0
  /\ b_results = << >>
  /\ successful = 0
  /\ failed = 0
  /\ b_log = << >>
  /\ th = [d \in Docs |-> NoThread]
  /\ \E f \in [Docs -> {NoFile, FileOf("local", TextLen)}] :
       md = [d \in Papers |-> IF d \in Docs THEN f[d] ELSE NoFile]

NextThreads ==
  \E d \in Docs :
    \/ ThAnalyzePaper(d)
    \/ ThNextCategory(d)
    \/ ThAskQuestion(d)
    \/ ThEndCategory(d)
    \/ ThSaveHeader(d)
    \/ ThSaveBody(d)

SpecThreads == InitThreads /\ [][NextThreads]_vars

\* ------------------------------------------------------------------------
\* Properties of convert_to_markdown (checked under SpecConvert)
\* ------------------------------------------------------------------------

RemotePcs == {"m_post", "m_put", "m_poll", "m_download", "m_unzip"}

RemoteErrors == {"submission", "upload", "poll", "no_link", "download",
                 "archive", "timeout"}

\* C1: an error raised by the remote path is never propagated by
\* convert_to_markdown: once the remote path has failed the local converter
\* has been invoked, an exception that leaves the call is not one of the
\* remote path, and when the call returns after a remote failure the output
\* path holds the complete text written by the local converter.
C1_RemoteErrorFallsBack ==
  /\ call.remote_err # "none" =>
       /\ call.remote_err \in RemoteErrors
       /\ call.mineru = 1
       /\ call.local = 1
       /\ pc \notin RemotePcs
  /\ call.result = "raised" => call.error \notin RemoteErrors
  /\ (call.remote_err # "none" /\ call.result = "path") =>
       md[call.doc] = FileOf("local", TextLen)

C1_Witness ==
  /\ call.remote_err = "timeout"
  /\ call.result = "path"
  /\ md[call.doc] = FileOf("local", TextLen)

\* C2: a call for an existing source whose output path exists returns the
\* path, leaves the file as it was and invokes no strategy; and a call for
\* a document for which an earlier call returned a path invokes no strategy
\* and returns the path.
C2_SkipOnExists ==
  /\ (call.src_ok /\ call.pre_exists) =>
       /\ call.result = "path"
       /\ md[call.doc] = call.before
       /\ call.mineru = 0
       /\ call.local = 0
  /\ (call.src_ok /\ call.again) =>
       /\ call.result = "path"
       /\ call.mineru = 0
       /\ call.local = 0

\* C3: when the polling loop is over and no status request reported done,
\* exactly max_retry status requests were issued and the remote path ended
\* with the timeout error.
C3_ExactlyMaxRetryPolls ==
  (/\ call.polls > 0
   /\ pc # "m_poll"
   /\ call.last_poll \notin {"done", "done_nolink"}) =>
     /\ call.polls = max_retry
     /\ call.remote_err = "timeout"

\* C4: after a status request that failed with a transport error the job
\* has not failed: the attempt is counted and the remote path is still
\* polling, or has run out of attempts.
C4_PollErrorConsumesAttempt ==
  call.last_poll = "error" =>
    /\ retry = call.polls
    /\ \/ pc = "m_poll" /\ call.remote_err = "none"
       \/ call.remote_err = "timeout"

\* C5: after a status request that reported the state failed, polling has
\* stopped and the remote path has ended with a remote-failure error, which
\* is not the timeout error.
C5_FailedIsTerminal ==
  call.last_poll = "failed" =>
    /\ pc # "m_poll"
    /\ call.remote_err = "remote_failure"

\* C6: once an archive without full.md has been unpacked, the remote path
\* has ended with an error and the local converter has been invoked.
C6_MissingTextEntryIsError ==
  (call.archive = "no_full_md" /\ pc # "m_unzip") =>
    /\ call.remote_err # "none"
    /\ call.local = 1

SubmissionFailed ==
  \/ call.post_outcome \in {"http_error", "bad_code"}
  \/ call.put_outcome = "error"

\* C7: when the request for the upload url or the upload itself has failed,
\* the remote path has ended with that error at once: the failed request
\* was issued once and no status request is issued.
C7_SubmissionErrorImmediate ==
  SubmissionFailed =>
    /\ pc \notin RemotePcs
    /\ call.remote_err \in {"submission", "upload"}
    /\ call.posts = 1
    /\ call.puts = (IF call.put_outcome = "error" THEN 1 ELSE 0)
    /\ call.polls = 0

C7_Witness ==
  /\ call.put_outcome = "error"
  /\ call.remote_err = "upload"
  /\ call.result = "path"

\* C8: the file the local converter leaves at an output path is at every
\* moment absent or complete, and no call skips conversion on a file the
\* local converter left incomplete.
C8_LocalWriteAtomic ==
  /\ \A d \in Docs : md[d].writer = "local" => IsComplete(md[d])
  /\ (call.pre_exists /\ call.result = "path"
        /\ call.before.writer = "local") => IsComplete(call.before)

RemoteDisabled == ~req_use_mineru \/ ~Truthy(mineru_token)

\* C9: when remote conversion is not requested, or requested without any
\* token, no request is ever sent to the remote service and a call for an
\* existing source without output invokes the local converter.
C9_DisabledGoesLocal ==
  RemoteDisabled =>
    /\ pc \notin RemotePcs
    /\ call.mineru = 0
    /\ call.posts = 0
    /\ call.puts = 0
    /\ call.polls = 0
    /\ (call.src_ok /\ ~call.pre_exists) => call.local = 1

C9_Witness ==
  /\ req_use_mineru
  /\ ~Truthy(mineru_token)
  /\ call.src_ok
  /\ ~call.pre_exists
  /\ call.local = 1
  /\ call.result = "path"

\* C27: when a call of convert_to_markdown has returned a path, the
\* markdown file exists at the output path of the document.
C27_ReturnedPathExists ==
  call.result = "path" => md[call.doc].exists

\* C26 (checked under SpecCancel): after Ctrl+C during the polling the call
\* of convert_to_markdown is over and has raised KeyboardInterrupt: the
\* remote path is left, so no further status request is issued, the local
\* converter is not invoked, and the call has left nothing at the output
\* path that a caller would have to remove.
C26_InterruptEndsPolling ==
  (call.error = "KeyboardInterrupt" \/ call.remote_err = "KeyboardInterrupt")
    => /\ pc = "idle"
       /\ call.result = "raised"
       /\ call.error = "KeyboardInterrupt"
       /\ call.local = 0
       /\ call.polls = retry
       /\ md[call.doc] = call.before

C26_Witness ==
  /\ call.error = "KeyboardInterrupt"
  /\ call.polls = 2
  /\ call.last_poll = "pending"

\* ------------------------------------------------------------------------
\* Properties of analyze_paper (checked under SpecAnalyze)
\* ------------------------------------------------------------------------

\* the categories are a prefix of ANALYSIS_QUESTIONS and the questions of
\* each are a prefix of the questions of its category
InTemplateOrder(categories) ==
  /\ Len(categories) <= Len(ANALYSIS_QUESTIONS)
  /\ \A i \in 1 .. Len(categories) :
       /\ categories[i].category = ANALYSIS_QUESTIONS[i].category
       /\ Len(categories[i].qa_pairs) <= Len(ANALYSIS_QUESTIONS[i].questions)
       /\ \A j \in 1 .. Len(categories[i].qa_pairs) :
            categories[i].qa_pairs[j].question =
              ANALYSIS_QUESTIONS[i].questions[j]

\* C10: the result under construction, together with the category under
\* construction, and the result kept by the analyzer have their categories
\* in ANALYSIS_QUESTIONS order and their questions in the order of the
\* category: categories[i].qa_pairs[j].question is
\* ANALYSIS_QUESTIONS[i].questions[j].
C10_TemplateOrder ==
  /\ InTemplateOrder(results.categories)
  /\ InTemplateOrder(analysis_results.categories)
  /\ a_pc = "question" =>
       InTemplateOrder(Append(results.categories, category_result))

C10_Witness ==
  /\ a_out = "returned"
  /\ Len(analysis_results.categories) = Len(ANALYSIS_QUESTIONS)
  /\ \A i \in 1 .. Len(ANALYSIS_QUESTIONS) :
       Len(analysis_results.categories[i].qa_pairs) =
         Len(ANALYSIS_QUESTIONS[i].questions)

NumQuestions(n) ==
  IF n = 0 THEN 0
  ELSE LET Sum[i \in 0 .. n] ==
             IF i = 0 THEN 0
             ELSE Sum[i - 1] + Len(ANALYSIS_QUESTIONS[i].questions)
       IN  Sum[n]

AllQuestions == NumQuestions(Len(ANALYSIS_QUESTIONS))

\* the answers recorded so far by the running (or last) analyze_paper call
Answered ==
  LET Sum[i \in 0 .. Len(results.categories)] ==
        IF i = 0 THEN 0
        ELSE Sum[i - 1] + Len(results.categories[i].qa_pairs)
      open == IF /\ cat_i \in 1 .. Len(ANALYSIS_QUESTIONS)
                 /\ category_result.category =
                      ANALYSIS_QUESTIONS[cat_i].category
                THEN Len(category_result.qa_pairs) ELSE 0
  IN  Sum[Len(results.categories)] + open

\* C11 as claimed: a call of analyze_paper in which a chat call was issued
\* ends by returning, after one chat call for every question.
C11_ChatFailureAbsorbed ==
  (a_pc = "idle" /\ chats > 0) =>
    /\ a_out = "returned"
    /\ chats = AllQuestions

\* C11 as amended: a failed chat call is not caught. analyze_paper raises at
\* that call: no chat call is issued for the remaining questions, nothing
\* is recorded for the failed question and self.analysis_results keeps the
\* value it had before the call. analyze_paper returns a result only when
\* every chat call succeeded, and the result then has an answer for every
\* question.
C11_ChatFailureAborts ==
  /\ a_out = "chat_error" =>
       /\ a_pc = "idle"
       /\ chats = Answered + 1
       /\ analysis_results = a_prev
  /\ a_out = "returned" =>
       /\ a_pc = "idle"
       /\ chats = AllQuestions
       /\ Answered = AllQuestions
       /\ analysis_results = results
  /\ a_pc # "idle" => chats = Answered

C11_Witness ==
  /\ a_out = "chat_error"
  /\ chats = 4
  /\ a_prev # EmptyResults
  /\ a_prev.paper_path # results.paper_path

\* the pairs of a list of categories, in order
RECURSIVE Flatten(_)
Flatten(categories) ==
  IF categories = << >>
    THEN << >>
    ELSE Head(categories).qa_pairs \o Flatten(Tail(categories))

\* the questions of ANALYSIS_QUESTIONS, in order
TemplateQuestions ==
  LET Qs[i \in 0 .. Len(ANALYSIS_QUESTIONS)] ==
        IF i = 0 THEN << >>
        ELSE Qs[i - 1] \o ANALYSIS_QUESTIONS[i].questions
  IN  Qs[Len(ANALYSIS_QUESTIONS)]

\* the pairs recorded by the running, or returned, call of analyze_paper
Recorded ==
  Flatten(results.categories)
  \o (IF a_pc = "question" THEN category_result.qa_pairs ELSE << >>)

\* C22: while analyze_paper runs and after it has returned, the chat calls
\* issued are as many as the pairs recorded, so that every call returned
\* and was recorded before the next was issued; the k-th pair has the k-th
\* question of ANALYSIS_QUESTIONS and the reply to that question for the
\* document; and a call that returned issued one call per question.
C22_OneCallPerQuestionInOrder ==
  a_out \in {"running", "returned"} =>
    /\ chats = Len(Recorded)
    /\ chats <= Len(TemplateQuestions)
    /\ \A k \in 1 .. Len(Recorded) :
         /\ Recorded[k].question = TemplateQuestions[k]
         /\ Recorded[k].answer =
              Reply(results.paper_path, TemplateQuestions[k])
    /\ a_out = "returned" => chats = Len(TemplateQuestions)

C22_Witness ==
  /\ a_out = "running"
  /\ a_pc = "question"
  /\ cat_i = 2
  /\ chats = 3

\* ------------------------------------------------------------------------
\* Properties of save_analysis_report (checked under SpecAnalyze)
\* ------------------------------------------------------------------------

\* the categories and pairs read back from the body of a report; a body
\* that is not a sequence of sections of subsections is not ok
RECURSIVE ParseBody(_, _)
ParseBody(items, categories) ==
  IF items = << >>
    THEN [ok |-> TRUE, categories |-> categories]
  ELSE IF Head(items)[1] = "h2"
    THEN ParseBody(Tail(items),
                   Append(categories,
                          [category |-> Head(items)[2], qa_pairs |-> << >>]))
  ELSE IF /\ Head(items)[1] = "h3"
          /\ categories # << >>
          /\ Len(items) >= 3
          /\ items[2][1] = "text"
          /\ items[3][1] = "rule"
    THEN ParseBody(SubSeq(items, 4, Len(items)),
                   [categories EXCEPT ![Len(categories)].qa_pairs =
                      Append(@, [question |-> items[1][2],
                                 answer |-> items[2][2]])])
  ELSE [ok |-> FALSE, categories |-> << >>]

\* C19: a written report is a header naming the analysed document and the
\* generation time, followed by the sections of the categories of the
\* analysis result in order, each made of the subsections of its questions
\* in order, each a question, its answer and a rule: read back, the body
\* gives exactly the categories and pairs of the result.
C19_ReportStructure ==
  \A d \in Papers :
    reports[d].exists =>
      LET c == reports[d].content
      IN  /\ Len(c) >= 4
          /\ SubSeq(c, 1, 4) =
               << << "title" >>, << "paper", reports[d].from.paper_path >>,
                  << "time", reports[d].time >>, << "rule" >> >>
          /\ ParseBody(SubSeq(c, 5, Len(c)), << >>) =
               [ok |-> TRUE, categories |-> reports[d].from.categories]

C19_Witness ==
  \E d \in Papers :
    /\ reports[d].exists
    /\ Len(reports[d].from.categories) = Len(ANALYSIS_QUESTIONS)
    /\ Len(reports[d].content) = 4 + Len(ANALYSIS_QUESTIONS) + 3 * AllQuestions

\* C20: two reports written from the same analysis result at the same time
\* have the same content, whatever their paths.
C20_RenderingDeterministic ==
  \A d, e \in Papers :
    (/\ reports[d].exists
     /\ reports[e].exists
     /\ reports[d].from = reports[e].from
     /\ reports[d].time = reports[e].time) =>
       reports[d].content = reports[e].content

C20_Witness ==
  \E d, e \in Papers :
    /\ d # e
    /\ reports[d].exists
    /\ reports[e].exists
    /\ reports[d].from = reports[e].from
    /\ reports[d].time = reports[e].time
    /\ reports[d].content = reports[e].content

\* ------------------------------------------------------------------------
\* Properties of extract_images_from_markdown (checked under SpecExtract)
\* ------------------------------------------------------------------------

\* the positions of the text that hold an image reference into images/
RefPositions == {k \in 1 .. Len(content) :
                   content[k].kind = "image" /\ content[k].dir = "images"}

\* the positions among them whose target is on disk
ExistingPositions == {k \in RefPositions : content[k].name \in disk}

\* C17: the list returned has one attachment for each image reference into
\* images/ whose target exists, and nothing else: its length is the number
\* of those references and its k-th entry is the target of the k-th of
\* them. For a text that refers to a.png and to b.png with only a.png on
\* disk it is the single attachment a.png.
C17_ExistingReferencesOnly ==
  e_pc = "returned" =>
  /\ Len(image_paths) = Cardinality(ExistingPositions)
  /\ \A k \in ExistingPositions :
       image_paths[Cardinality({m \in ExistingPositions : m <= k})] =
         content[k].name
  /\ \A k \in 1 .. Len(image_paths) : image_paths[k] \in disk
  /\ (/\ FindAll(content) \in {<< "a.png", "b.png" >>, << "b.png", "a.png" >>}
      /\ disk = {"a.png"}) => image_paths = << "a.png" >>

C17_Witness ==
  /\ e_pc = "returned"
  /\ Len(content) = 3
  /\ content[1] = [kind |-> "image", dir |-> "images", name |-> "a.png"]
  /\ content[2].kind = "text"
  /\ content[3] = [kind |-> "image", dir |-> "images", name |-> "b.png"]
  /\ disk = {"a.png"}
  /\ image_paths = << "a.png" >>

\* the position of the first reference to a name
FirstReference(n) ==
  CHOOSE k \in RefPositions :
    /\ content[k].name = n
    /\ \A m \in RefPositions : content[m].name = n => k <= m

\* C18: the attachments are in the order of the first appearance of their
\* references: an image is returned once, and before every image whose
\* first reference comes later.
C18_FirstAppearanceOrder ==
  e_pc = "returned" =>
  /\ \A j, k \in 1 .. Len(image_paths) :
       j # k => image_paths[j] # image_paths[k]
  /\ \A j, k \in 1 .. Len(image_paths) :
       j < k => FirstReference(image_paths[j]) < FirstReference(image_paths[k])

\* C25: a result is rendered once and then dropped: the analyzer does not
\* hold a result from which a report has been written, and no two reports
\* are written from one result.
C25_ResultDiscardedAfterSave ==
  /\ \A d \in Papers :
       reports[d].exists => analysis_results # reports[d].from
  /\ \A d1, d2 \in Papers :
       (d1 # d2 /\ reports[d1].exists /\ reports[d2].exists) =>
         reports[d1].from # reports[d2].from

\* C29: while the analyzer holds no result, a call of save_analysis_report
\* can only have raised ValueError, and no report file and no directory for
\* the reports has been created.
C29_SaveWithoutResultRaises ==
  analysis_results = EmptyResults =>
    /\ s_out \in {"none", "ValueError"}
    /\ ~report_dir
    /\ \A d \in Papers : ~reports[d].exists

C29_Witness ==
  /\ analysis_results = EmptyResults
  /\ s_out = "ValueError"
  /\ a_out = "chat_error"

\* ------------------------------------------------------------------------
\* Properties of process_paper and batch_process_papers (checked under
\* SpecBatch)
\* ------------------------------------------------------------------------

\* C12: a document whose processing raised does not end the batch: when
\* batch_process_papers is over, process_paper was called once for every
\* listed file, in the order of the list, and the report of every document
\* for which process_paper returned the report path exists.
C12_FailureIsolated ==
  /\ b_pc = "done" =>
       /\ Len(b_log) = Len(pdf_files)
       /\ \A i \in 1 .. Len(pdf_files) : b_log[i].doc = pdf_files[i]
  /\ \A i \in 1 .. Len(b_log) :
       b_log[i].out = << "report", b_log[i].doc >> =>
         reports[b_log[i].doc].exists

C12_Witness ==
  /\ b_pc = "done"
  /\ Len(pdf_files) = 2
  /\ b_log[1].out[1] = "raised"
  /\ b_log[2].out = << "report", "p2" >>
  /\ reports["p2"].exists
  /\ ~reports["p1"].exists

\* C13 as stated: the returned list has one outcome per listed file.
C13_OneOutcomePerDocument ==
  b_pc = "done" => Len(b_results) = Len(pdf_files)

\* the values process_paper returned, in the order of the calls
RECURSIVE ReturnedPaths(_)
ReturnedPaths(log) ==
  IF log = << >>
    THEN << >>
    ELSE IF Head(log).out[1] = "raised"
           THEN ReturnedPaths(Tail(log))
           ELSE << Head(log).out >> \o ReturnedPaths(Tail(log))

\* C13 amended: the returned list holds, in the order of the files, the
\* path process_paper returned for each document that did not raise and
\* nothing for a document that raised; the failures are only counted:
\* successful is the length of the list and successful + failed the number
\* of files.
C13_ReturnsSuccessesOnly ==
  /\ b_results = ReturnedPaths(b_log)
  /\ successful = Len(b_results)
  /\ successful + failed = Len(b_log)
  /\ b_pc = "done" => successful + failed = Len(pdf_files)

C13_Witness ==
  /\ b_pc = "done"
  /\ pdf_files = << "p1", "p2", "p3" >>
  /\ b_log[2].out[1] = "raised"
  /\ b_results = << << "report", "p1" >>, << "report", "p3" >> >>
  /\ successful = 2
  /\ failed = 1

\* C14: the stages of process_paper run in sequence: while
\* convert_to_markdown has not returned a path for the document no chat
\* request is issued, analyze_paper and save_analysis_report are not
\* called and no report of the document exists, which is also how a
\* document whose conversion raised ends; and save_analysis_report is
\* called, and the report exists, only after analyze_paper has returned.
C14_StagesInSequence ==
  p_doc \in Papers =>
    /\ p_doc \notin returned =>
         /\ chats = 0
         /\ a_pc = "idle"
         /\ a_out = "none"
         /\ s_out = "none"
         /\ ~reports[p_doc].exists
    /\ a_pc # "idle" => pc = "idle" /\ p_pc = "analyze"
    /\ s_out # "none" => a_out = "returned"
    /\ reports[p_doc].exists => a_out = "returned" /\ s_out = "saved"

C14_Witness ==
  /\ p_pc = "ended"
  /\ p_out = << "report", p_doc >>
  /\ chats = AllQuestions
  /\ reports[p_doc].exists

\* C16: after Ctrl+C at the confirmation prompt process_paper has ended
\* with the markdown path, no chat request was issued, analyze_paper and
\* save_analysis_report were not called and no report of the document
\* exists; after Enter the pipeline is in, or past, analyze_paper.
C16_AbortOrResume ==
  /\ p_prompt = "KeyboardInterrupt" =>
       /\ p_pc \in {"ended", "idle"}
       /\ p_out = << "markdown", p_doc >>
       /\ chats = 0
       /\ a_out = "none"
       /\ s_out = "none"
       /\ ~reports[p_doc].exists
  /\ p_prompt = "enter" =>
       \/ p_pc = "analyze"
       \/ a_out \notin {"none", "running"}

C16_Witness ==
  /\ p_prompt = "KeyboardInterrupt"
  /\ p_pc = "ended"
  /\ md[p_doc].exists

LocalErrors == {"ImportError", "extract_error", "OSError"}

\* the number of calls of process_paper in the log that raised
RECURSIVE NumRaised(_)
NumRaised(log) ==
  IF log = << >>
    THEN 0
    ELSE (IF Head(log).out[1] = "raised" THEN 1 ELSE 0) + NumRaised(Tail(log))

\* C21: when the remote path has failed and the call of convert_to_markdown
\* is over without the complete text of the local converter at the output
\* path, the call has raised the error of the local converter; in a batch
\* such a document is logged as raised, every raised document is counted
\* in failed, and the batch still calls process_paper for every file.
C21_DoubleFailureIsPerDocument ==
  /\ (/\ call.remote_err # "none"
      /\ pc = "idle"
      /\ md[call.doc] # FileOf("local", TextLen)) =>
       /\ call.result = "raised"
       /\ call.error \in LocalErrors
       /\ call.local = 1
  /\ \A i \in 1 .. Len(b_log) :
       (b_log[i].remote_failed /\ b_log[i].markdown_path = "none") =>
         /\ b_log[i].out[1] = "raised"
         /\ b_log[i].out[2] \in LocalErrors
  /\ failed = NumRaised(b_log)
  /\ b_pc = "done" => Len(b_log) = Len(pdf_files)

C21_Witness ==
  /\ b_pc = "done"
  /\ pdf_files = << "p1", "p2" >>
  /\ b_log[1].remote_failed
  /\ b_log[1].markdown_path = "none"
  /\ b_log[1].out = << "raised", "ImportError" >>
  /\ b_log[2].out = << "report", "p2" >>
  /\ failed = 1
  /\ successful = 1

\* C24: while the loop of batch_process_papers runs, successful + failed is
\* the number of documents handled so far; when the batch is over it is
\* the number of PDF files found; and the list of results always has
\* successful entries.
C24_TallyAddsUp ==
  /\ b_pc = "loop" => successful + failed = b_i - 1
  /\ b_pc = "done" => successful + failed = Len(pdf_files)
  /\ Len(b_results) = successful

C24_Witness ==
  /\ b_pc = "done"
  /\ Len(pdf_files) = 3
  /\ successful = 1
  /\ failed = 2

\* the number of calls of process_paper in the log that returned the path
\* of the report
RECURSIVE NumReports(_)
NumReports(log) ==
  IF log = << >>
    THEN 0
    ELSE (IF Head(log).out[1] = "report" THEN 1 ELSE 0)
         + NumReports(Tail(log))

\* C28: every path in the list of results is the path of a report that
\* exists, and successful counts exactly the documents whose report was
\* written, also when a document was aborted at the confirmation prompt.
C28_ResultsAreReports ==
  /\ \A i \in 1 .. Len(b_results) :
       /\ b_results[i][1] = "report"
       /\ reports[b_results[i][2]].exists
  /\ successful = NumReports(b_log)

\* ------------------------------------------------------------------------
\* Property of two concurrent process_paper calls (checked under
\* SpecThreads)
\* ------------------------------------------------------------------------

\* C15: the report a thread has written for its document is the rendering
\* of the result that thread's analyze_paper built for that document: its
\* header names the document and its questions and answers are those of
\* the document.
C15_OwnAnswersOnly ==
  \A d \in Docs :
    th[d].out = "report" =>
      /\ th[d].results.paper_path = d
      /\ reports[d].content =
           ReportContent(th[d].results, reports[d].time, d)

\* ------------------------------------------------------------------------
\* Property of the messages of a question (checked under SpecBuild)
\* ------------------------------------------------------------------------

\* the positions among the first MaxAttachments of image_paths whose image
\* can be loaded
LoadedPositions ==
  {k \in 1 .. Len(image_paths) :
     k <= MaxAttachments /\ image_paths[k] \in loadable}

\* C23: the list passed to the chat client is one system message and one
\* user message; the content of the user message is one text part with
\* the question, followed by one image part for each of the first five
\* extracted images that can be loaded, in the order of extraction, and by
\* nothing else.
C23_MessageShape ==
  m_pc = "sent" =>
    /\ Len(messages) = 2
    /\ messages[1].role = "system"
    /\ messages[2].role = "user"
    /\ LET c == messages[2].content
       IN  /\ Len(c) >= 1
           /\ c[1].type = "text"
           /\ c[1].text[2] =
                ANALYSIS_QUESTIONS[m_in.cat].questions[m_in.q]
           /\ Len(c) - 1 <= MaxAttachments
           /\ Len(c) - 1 = Cardinality(LoadedPositions)
           /\ \A j \in 2 .. Len(c) :
                /\ c[j].type = "image_url"
                /\ \E k \in LoadedPositions :
                     /\ Cardinality({m \in LoadedPositions : m < k}) = j - 2
                     /\ c[j].url = image_paths[k]

C23_Witness ==
  /\ m_pc = "sent"
  /\ image_paths = << "a.png", "b.png", "a.png", "a.png", "b.png", "a.png" >>
  /\ loadable = {"a.png"}
  /\ Len(messages[2].content) = 4

====
